---- MODULE Spec2Model ----
(***************************************************************************)
(* Model of tranzaktionz: a stream of transaction records is folded into   *)
(* per-client account ledgers (src/src/client.rs, src/src/main.rs,         *)
(* src/src/transaction.rs, src/src/error.rs).                              *)
(*                                                                         *)
(* Amounts are rust_decimal values; they are modelled as integers counting *)
(* units of the smallest scale in use (exact fixed-point arithmetic).      *)
(* Option<Decimal> is modelled as a tuple: <<>> is None, <<a>> is Some(a). *)
(* A Result<(), Error> of a &mut self method is modelled as a record       *)
(* [c |-> the client after the call, err |-> "Ok" or the error variant],   *)
(* so that a mutation made before an early return is kept.                 *)
(***************************************************************************)
EXTENDS Integers, Sequences, FiniteSets

\* ---- bounds ----
\* Records consumed in a run over the records of one client (SpecLedger).
MaxRecords == 5
\* Records consumed in a run over the records of all clients (Spec).
MaxRunRecords == 2
\* Records consumed in a run over the short records of all clients (SpecPair).
MaxPairRecords == 4
NumClients == 2
MaxTx == 2
MaxAmount == 2

ClientIds == 1..NumClients
TxIds == 1..MaxTx
Amounts == 1..MaxAmount

\* ---- transaction.rs ----
TransactionType == {"Deposit", "Withdrawal", "Dispute", "Resolve", "Chargeback"}

None == <<>>
Some(a) == <<a>>

\* A decoded record: the disputed field is #[serde(skip)], hence false.
Transaction(ty, cl, id, am) ==
  [tx_type |-> ty, client |-> cl, tx |-> id, amount |-> am, disputed |-> FALSE]

tx_dispute(tx) == [tx EXCEPT !.disputed = TRUE]

is_disputed(tx) == tx.disputed

get_amount_or_err(tx) == IF tx.amount = None THEN "WithoutAmount" ELSE "Ok"

\* ---- error.rs ----
Error == {"CSV", "ClientNotFound", "NoFunds", "WithoutAmount", "WithAmount",
          "ClientLocked", "TransactionNotFound", "InvalidTxType", "TxNotDisputed"}

\* ---- client.rs ----
Res(c, e) == [c |-> c, err |-> e]

ClientNew(id) ==
  [client |-> id, available |-> 0, held |-> 0, total |-> 0, locked |-> FALSE,
   transactions |-> <<>>]

\* Faulty variant of can_make_tx: the locked flag is never consulted.
can_make_tx_never(c) == "Ok"

can_make_tx(c) == IF c.locked THEN "ClientLocked" ELSE "Ok"

\* Faulty variant of save_tx: an entry already stored under the tx id is kept.
save_tx_keep_existing(c, tx) ==
  [c EXCEPT !.transactions =
     [k \in (DOMAIN c.transactions) \cup {tx.tx} |->
        IF k \in DOMAIN c.transactions THEN c.transactions[k] ELSE tx]]

\* Faulty variant of save_tx: a replaced entry hands its disputed flag to
\* the new one.
save_tx_keep_flag(c, tx) ==
  [c EXCEPT !.transactions =
     [k \in (DOMAIN c.transactions) \cup {tx.tx} |->
        IF k # tx.tx THEN c.transactions[k]
        ELSE IF k \in DOMAIN c.transactions
             THEN [tx EXCEPT !.disputed = c.transactions[k].disputed]
             ELSE tx]]

save_tx(c, tx) ==
  [c EXCEPT !.transactions =
     [k \in (DOMAIN c.transactions) \cup {tx.tx} |->
        IF k = tx.tx THEN tx ELSE c.transactions[k]]]

deposit(c, amount) ==
  IF can_make_tx(c) # "Ok" THEN Res(c, can_make_tx(c))
  ELSE Res([c EXCEPT !.available = @ + amount, !.total = @ + amount], "Ok")

\* Faulty variant of withdraw: withdrawing exactly the available funds is refused.
withdraw_strict(c, amount) ==
  IF can_make_tx(c) # "Ok" THEN Res(c, can_make_tx(c))
  ELSE LET available == c.available - amount IN
       IF available <= 0 THEN Res(c, "NoFunds")
       ELSE Res([c EXCEPT !.available = available, !.total = @ - amount], "Ok")

\* Faulty variant of withdraw: the balances are debited before the funds check,
\* so the NoFunds return leaves them debited.
withdraw_early(c, amount) ==
  IF can_make_tx(c) # "Ok" THEN Res(c, can_make_tx(c))
  ELSE LET c1 == [c EXCEPT !.available = @ - amount, !.total = @ - amount] IN
       IF c1.available < 0 THEN Res(c1, "NoFunds") ELSE Res(c1, "Ok")

\* Faulty variant of withdraw: the funds check looks at total, not at available.
withdraw_checks_total(c, amount) ==
  IF can_make_tx(c) # "Ok" THEN Res(c, can_make_tx(c))
  ELSE IF c.total - amount < 0 THEN Res(c, "NoFunds")
  ELSE Res([c EXCEPT !.available = @ - amount, !.total = @ - amount], "Ok")

\* Faulty variant of withdraw: the available balance is not checked.
withdraw_unchecked(c, amount) ==
  IF can_make_tx(c) # "Ok" THEN Res(c, can_make_tx(c))
  ELSE Res([c EXCEPT !.available = @ - amount, !.total = @ - amount], "Ok")

withdraw(c, amount) ==
  IF can_make_tx(c) # "Ok" THEN Res(c, can_make_tx(c))
  ELSE LET available == c.available - amount IN
       IF available < 0 THEN Res(c, "NoFunds")
       ELSE Res([c EXCEPT !.available = available, !.total = @ - amount], "Ok")

get_tx(c, tx_id) ==
  IF tx_id \in DOMAIN c.transactions THEN "Ok" ELSE "TransactionNotFound"

\* Faulty variant of tx_is_referrable: only a deposit can be referred to.
tx_is_referrable_deposit_only(c, tx_id) ==
  IF get_tx(c, tx_id) # "Ok" THEN get_tx(c, tx_id)
  ELSE IF c.transactions[tx_id].tx_type = "Deposit" THEN "Ok"
  ELSE "InvalidTxType"

tx_is_referrable(c, tx_id) ==
  IF get_tx(c, tx_id) # "Ok" THEN get_tx(c, tx_id)
  ELSE IF c.transactions[tx_id].tx_type \in {"Deposit", "Withdrawal"} THEN "Ok"
  ELSE "InvalidTxType"

\* Faulty variant of dispute: a transaction whose disputed flag is already set
\* is refused.
dispute_guarded(c, tx_id) ==
  IF can_make_tx(c) # "Ok" THEN Res(c, can_make_tx(c))
  ELSE IF tx_is_referrable(c, tx_id) # "Ok" THEN Res(c, tx_is_referrable(c, tx_id))
  ELSE IF is_disputed(c.transactions[tx_id]) THEN Res(c, "InvalidTxType")
  ELSE LET c1 == [c EXCEPT !.transactions[tx_id] = tx_dispute(@)]
           tx == c1.transactions[tx_id]
       IN IF get_amount_or_err(tx) # "Ok" THEN Res(c1, get_amount_or_err(tx))
          ELSE Res([c1 EXCEPT !.available = @ - tx.amount[1],
                              !.held = @ + tx.amount[1]], "Ok")

\* Faulty variant of dispute: the transaction is not marked as disputed.
dispute_no_flag(c, tx_id) ==
  IF can_make_tx(c) # "Ok" THEN Res(c, can_make_tx(c))
  ELSE IF tx_is_referrable(c, tx_id) # "Ok" THEN Res(c, tx_is_referrable(c, tx_id))
  ELSE LET tx == c.transactions[tx_id]
       IN IF get_amount_or_err(tx) # "Ok" THEN Res(c, get_amount_or_err(tx))
          ELSE Res([c EXCEPT !.available = @ - tx.amount[1],
                             !.held = @ + tx.amount[1]], "Ok")

\* Faulty variant of dispute: the amount must be available.
dispute_checks_funds(c, tx_id) ==
  IF can_make_tx(c) # "Ok" THEN Res(c, can_make_tx(c))
  ELSE IF tx_is_referrable(c, tx_id) # "Ok" THEN Res(c, tx_is_referrable(c, tx_id))
  ELSE LET c1 == [c EXCEPT !.transactions[tx_id] = tx_dispute(@)]
           tx == c1.transactions[tx_id]
       IN IF get_amount_or_err(tx) # "Ok" THEN Res(c1, get_amount_or_err(tx))
          ELSE IF c.available < tx.amount[1] THEN Res(c, "NoFunds")
          ELSE Res([c1 EXCEPT !.available = @ - tx.amount[1],
                              !.held = @ + tx.amount[1]], "Ok")

dispute(c, tx_id) ==
  IF can_make_tx(c) # "Ok" THEN Res(c, can_make_tx(c))
  ELSE IF tx_is_referrable(c, tx_id) # "Ok" THEN Res(c, tx_is_referrable(c, tx_id))
  ELSE LET c1 == [c EXCEPT !.transactions[tx_id] = tx_dispute(@)]
           tx == c1.transactions[tx_id]
       IN IF get_amount_or_err(tx) # "Ok" THEN Res(c1, get_amount_or_err(tx))
          ELSE Res([c1 EXCEPT !.available = @ - tx.amount[1],
                              !.held = @ + tx.amount[1]], "Ok")

\* Faulty variant of resolve: the disputed flag of the transaction is cleared.
resolve_clears_flag(c, tx_id) ==
  IF can_make_tx(c) # "Ok" THEN Res(c, can_make_tx(c))
  ELSE IF tx_is_referrable(c, tx_id) # "Ok" THEN Res(c, tx_is_referrable(c, tx_id))
  ELSE LET tx == c.transactions[tx_id] IN
       IF ~is_disputed(tx) THEN Res(c, "TxNotDisputed")
       ELSE IF get_amount_or_err(tx) # "Ok" THEN Res(c, get_amount_or_err(tx))
       ELSE Res([c EXCEPT !.available = @ + tx.amount[1],
                          !.held = @ - tx.amount[1],
                          !.transactions[tx_id].disputed = FALSE], "Ok")

\* Faulty variant of resolve: it also locks the account.
resolve_locks(c, tx_id) ==
  IF can_make_tx(c) # "Ok" THEN Res(c, can_make_tx(c))
  ELSE IF tx_is_referrable(c, tx_id) # "Ok" THEN Res(c, tx_is_referrable(c, tx_id))
  ELSE LET tx == c.transactions[tx_id] IN
       IF ~is_disputed(tx) THEN Res(c, "TxNotDisputed")
       ELSE IF get_amount_or_err(tx) # "Ok" THEN Res(c, get_amount_or_err(tx))
       ELSE Res([c EXCEPT !.available = @ + tx.amount[1],
                          !.held = @ - tx.amount[1],
                          !.locked = TRUE], "Ok")

\* Faulty variant of resolve: the is_disputed check is missing.
resolve_unchecked(c, tx_id) ==
  IF can_make_tx(c) # "Ok" THEN Res(c, can_make_tx(c))
  ELSE IF tx_is_referrable(c, tx_id) # "Ok" THEN Res(c, tx_is_referrable(c, tx_id))
  ELSE LET tx == c.transactions[tx_id] IN
       IF get_amount_or_err(tx) # "Ok" THEN Res(c, get_amount_or_err(tx))
       ELSE Res([c EXCEPT !.available = @ + tx.amount[1],
                          !.held = @ - tx.amount[1]], "Ok")

resolve(c, tx_id) ==
  IF can_make_tx(c) # "Ok" THEN Res(c, can_make_tx(c))
  ELSE IF tx_is_referrable(c, tx_id) # "Ok" THEN Res(c, tx_is_referrable(c, tx_id))
  ELSE LET tx == c.transactions[tx_id] IN
       IF ~is_disputed(tx) THEN Res(c, "TxNotDisputed")
       ELSE IF get_amount_or_err(tx) # "Ok" THEN Res(c, get_amount_or_err(tx))
       ELSE Res([c EXCEPT !.available = @ + tx.amount[1],
                          !.held = @ - tx.amount[1]], "Ok")

\* Faulty variant of chargeback: the alternative left commented out in the
\* source, which credits held and total for a disputed Withdrawal.
chargeback_by_type(c, tx_id) ==
  IF get_tx(c, tx_id) # "Ok" THEN Res(c, get_tx(c, tx_id))
  ELSE LET tx == c.transactions[tx_id] IN
       IF ~is_disputed(tx) THEN Res(c, "TxNotDisputed")
       ELSE IF get_amount_or_err(tx) # "Ok" THEN Res(c, get_amount_or_err(tx))
       ELSE IF tx.tx_type = "Withdrawal"
       THEN Res([c EXCEPT !.held = @ + tx.amount[1],
                          !.total = @ + tx.amount[1],
                          !.locked = TRUE], "Ok")
       ELSE Res([c EXCEPT !.held = @ - tx.amount[1],
                          !.total = @ - tx.amount[1],
                          !.locked = TRUE], "Ok")

\* Faulty variant of chargeback: total is not debited.
chargeback_keeps_total(c, tx_id) ==
  IF get_tx(c, tx_id) # "Ok" THEN Res(c, get_tx(c, tx_id))
  ELSE LET tx == c.transactions[tx_id] IN
       IF ~is_disputed(tx) THEN Res(c, "TxNotDisputed")
       ELSE IF get_amount_or_err(tx) # "Ok" THEN Res(c, get_amount_or_err(tx))
       ELSE Res([c EXCEPT !.held = @ - tx.amount[1], !.locked = TRUE], "Ok")

\* Faulty variant of chargeback: the account is not locked.
chargeback_unlocked(c, tx_id) ==
  IF get_tx(c, tx_id) # "Ok" THEN Res(c, get_tx(c, tx_id))
  ELSE LET tx == c.transactions[tx_id] IN
       IF ~is_disputed(tx) THEN Res(c, "TxNotDisputed")
       ELSE IF get_amount_or_err(tx) # "Ok" THEN Res(c, get_amount_or_err(tx))
       ELSE Res([c EXCEPT !.held = @ - tx.amount[1],
                          !.total = @ - tx.amount[1]], "Ok")

chargeback(c, tx_id) ==
  IF get_tx(c, tx_id) # "Ok" THEN Res(c, get_tx(c, tx_id))
  ELSE LET tx == c.transactions[tx_id] IN
       IF ~is_disputed(tx) THEN Res(c, "TxNotDisputed")
       ELSE IF get_amount_or_err(tx) # "Ok" THEN Res(c, get_amount_or_err(tx))
       ELSE Res([c EXCEPT !.held = @ - tx.amount[1],
                          !.total = @ - tx.amount[1],
                          !.locked = TRUE], "Ok")

\* Faulty variant of make_tx: a Dispute, Resolve or Chargeback is dispatched
\* without looking at its amount.
make_tx_amount_unchecked(c, tx) ==
  IF can_make_tx(c) # "Ok" THEN Res(c, can_make_tx(c))
  ELSE CASE tx.tx_type = "Deposit" ->
              IF tx.amount = None THEN Res(c, "WithoutAmount")
              ELSE LET r == deposit(c, tx.amount[1]) IN
                   IF r.err # "Ok" THEN r ELSE Res(save_tx(r.c, tx), "Ok")
         [] tx.tx_type = "Withdrawal" ->
              IF tx.amount = None THEN Res(c, "WithoutAmount")
              ELSE LET r == withdraw(c, tx.amount[1]) IN
                   IF r.err # "Ok" THEN r ELSE Res(save_tx(r.c, tx), "Ok")
         [] tx.tx_type = "Dispute" -> dispute(c, tx.tx)
         [] tx.tx_type = "Resolve" -> resolve(c, tx.tx)
         [] tx.tx_type = "Chargeback" -> chargeback(c, tx.tx)

\* Faulty variant of make_tx: the can_make_tx check is skipped for a Chargeback.
make_tx_chargeback_ungated(c, tx) ==
  IF tx.tx_type # "Chargeback" /\ can_make_tx(c) # "Ok" THEN Res(c, can_make_tx(c))
  ELSE CASE tx.tx_type = "Deposit" ->
              IF tx.amount = None THEN Res(c, "WithoutAmount")
              ELSE LET r == deposit(c, tx.amount[1]) IN
                   IF r.err # "Ok" THEN r ELSE Res(save_tx(r.c, tx), "Ok")
         [] tx.tx_type = "Withdrawal" ->
              IF tx.amount = None THEN Res(c, "WithoutAmount")
              ELSE LET r == withdraw(c, tx.amount[1]) IN
                   IF r.err # "Ok" THEN r ELSE Res(save_tx(r.c, tx), "Ok")
         [] tx.tx_type = "Dispute" ->
              IF tx.amount # None THEN Res(c, "WithAmount") ELSE dispute(c, tx.tx)
         [] tx.tx_type = "Resolve" ->
              IF tx.amount # None THEN Res(c, "WithAmount") ELSE resolve(c, tx.tx)
         [] tx.tx_type = "Chargeback" ->
              IF tx.amount # None THEN Res(c, "WithAmount") ELSE chargeback(c, tx.tx)

make_tx(c, tx) ==
  IF can_make_tx(c) # "Ok" THEN Res(c, can_make_tx(c))
  ELSE CASE tx.tx_type = "Deposit" ->
              IF tx.amount = None THEN Res(c, "WithoutAmount")
              ELSE LET r == deposit(c, tx.amount[1]) IN
                   IF r.err # "Ok" THEN r ELSE Res(save_tx(r.c, tx), "Ok")
         [] tx.tx_type = "Withdrawal" ->
              IF tx.amount = None THEN Res(c, "WithoutAmount")
              ELSE LET r == withdraw(c, tx.amount[1]) IN
                   IF r.err # "Ok" THEN r ELSE Res(save_tx(r.c, tx), "Ok")
         [] tx.tx_type = "Dispute" ->
              IF tx.amount # None THEN Res(c, "WithAmount") ELSE dispute(c, tx.tx)
         [] tx.tx_type = "Resolve" ->
              IF tx.amount # None THEN Res(c, "WithAmount") ELSE resolve(c, tx.tx)
         [] tx.tx_type = "Chargeback" ->
              IF tx.amount # None THEN Res(c, "WithAmount") ELSE chargeback(c, tx.tx)

\* ---- main.rs ----
\* Faulty variant of Ignored: TransactionNotFound is not in the match arm.
Ignored_without_notfound == {"NoFunds", "TxNotDisputed"}

\* Faulty variant of Ignored: ClientLocked is swallowed as well.
Ignored_with_locked == {"NoFunds", "TransactionNotFound", "TxNotDisputed", "ClientLocked"}

\* Errors the stream processor ignores; every other error is returned.
Ignored == {"NoFunds", "TransactionNotFound", "TxNotDisputed"}

\* Faulty variant of or_insert: the new client replaces an existing one.
or_insert_always(m, id) ==
  [k \in (DOMAIN m) \cup {id} |-> IF k = id THEN ClientNew(id) ELSE m[k]]

\* Faulty variant of or_insert: a new client starts a registry of its own.
or_insert_alone(m, id) ==
  IF id \in DOMAIN m THEN m ELSE [k \in {id} |-> ClientNew(id)]

\* clients_map.entry(tx.client).or_insert(Client::new(tx.client))
or_insert(m, id) ==
  IF id \in DOMAIN m THEN m
  ELSE [k \in (DOMAIN m) \cup {id} |-> IF k = id THEN ClientNew(id) ELSE m[k]]

\* Faulty variant of SortedKeys: descending order.
RECURSIVE SortedKeys_descending(_)
SortedKeys_descending(S) ==
  IF S = {} THEN <<>>
  ELSE LET k == CHOOSE x \in S : \A y \in S : x >= y
       IN <<k>> \o SortedKeys_descending(S \ {k})

\* Keys of a BTreeMap in iteration order (ascending).
RECURSIVE SortedKeys(_)
SortedKeys(S) ==
  IF S = {} THEN <<>>
  ELSE LET k == CHOOSE x \in S : \A y \in S : x <= y IN <<k>> \o SortedKeys(S \ {k})

\* The row serialized for a client (transactions is #[serde(skip)]).
Row(c) ==
  [client |-> c.client, available |-> c.available, held |-> c.held,
   total |-> c.total, locked |-> c.locked]

\* The records the reader can decode.
Records ==
  { Transaction(ty, cl, id, am) :
      ty \in TransactionType, cl \in ClientIds, id \in TxIds,
      am \in {None} \cup { Some(a) : a \in Amounts } }

VARIABLES
  clients_map,  \* BTreeMap<u16, Client>
  status,       \* "running" (in the loop), "aborted" (returned Err), "done" (returned Ok)
  nread,        \* number of records consumed from the reader
  output,       \* rows written to stdout
  last,         \* the loop iteration just executed: record, result, ledger before
  lifecycle,    \* history variable: dispute lifecycle of each stored transaction
  seen          \* history variable: client ids in the order of their first record

vars == <<clients_map, status, nread, output, last, lifecycle, seen>>

NoTx == [tx_type |-> "NoTx", client |-> 0, tx |-> 0, amount |-> None, disputed |-> FALSE]

NoLast ==
  [tx |-> NoTx, err |-> "NoResult", before |-> ClientNew(0), life |-> "Absent", cyc |-> 0]

\* Lifecycle of transaction id of client cl: "Absent" when never stored, else
\* "Normal", "Disputed", "Resolved" or "ChargedBack" by the last successful
\* operation that stored or referenced it.
LifeOf(cl, id) == IF <<cl, id>> \in DOMAIN lifecycle THEN lifecycle[<<cl, id>>] ELSE "Absent"

\* Length, after a record tx with result err, of the run of consecutive
\* successful records Dispute, Resolve, Dispute, Resolve, ... of one
\* transaction of one client that ends with tx (0 when tx does not end one).
CycleAfter(tx, err) ==
  LET follows == /\ last.tx.client = tx.client /\ last.tx.tx = tx.tx
                 /\ last.err = "Ok"
  IN CASE err = "Ok" /\ tx.tx_type = "Dispute" ->
            IF follows /\ last.tx.tx_type = "Resolve" /\ last.cyc = 2 THEN 3 ELSE 1
       [] err = "Ok" /\ tx.tx_type = "Resolve" ->
            IF follows /\ last.tx.tx_type = "Dispute" /\ last.cyc \in {1, 3}
            THEN last.cyc + 1 ELSE 0
       [] OTHER -> 0

Init ==
  /\ clients_map = <<>>
  /\ status = "running"
  /\ nread = 0
  /\ output = <<>>
  /\ last = NoLast
  /\ lifecycle = <<>>
  /\ seen = <<>>

\* One iteration of the loop over a decoded record.
Step(tx) ==
  /\ status = "running"
  /\ LET m1 == or_insert(clients_map, tx.client)
         r == make_tx(m1[tx.client], tx)
     IN /\ clients_map' = [m1 EXCEPT ![tx.client] = r.c]
        /\ status' = IF r.err = "Ok" \/ r.err \in Ignored THEN "running" ELSE "aborted"
        /\ last' = [tx |-> tx, err |-> r.err, before |-> m1[tx.client],
                     life |-> LifeOf(tx.client, tx.tx),
                     cyc |-> CycleAfter(tx, r.err)]
        /\ lifecycle' =
             IF r.err # "Ok" THEN lifecycle
             ELSE [k \in (DOMAIN lifecycle) \cup {<<tx.client, tx.tx>>} |->
                     IF k # <<tx.client, tx.tx>> THEN lifecycle[k]
                     ELSE CASE tx.tx_type \in {"Deposit", "Withdrawal"} -> "Normal"
                            [] tx.tx_type = "Dispute" -> "Disputed"
                            [] tx.tx_type = "Resolve" -> "Resolved"
                            [] tx.tx_type = "Chargeback" -> "ChargedBack"]
  /\ seen' = IF tx.client \in DOMAIN clients_map THEN seen ELSE Append(seen, tx.client)
  /\ nread' = nread + 1
  /\ UNCHANGED output

\* An iteration in a run over the records of all clients.
Process(tx) == nread < MaxRunRecords /\ Step(tx)

\* The client of the runs over the records of one client.
LedgerClient == CHOOSE c \in ClientIds : \A d \in ClientIds : c <= d

\* An iteration in a run over the records of one client.
LedgerProcess(tx) == nread < MaxRecords /\ tx.client = LedgerClient /\ Step(tx)

\* The reader yields a record that does not decode: `result?` returns the error.
DecodeError ==
  /\ status = "running"
  /\ status' = "aborted"
  /\ nread' = nread + 1
  /\ last' = NoLast
  /\ UNCHANGED <<clients_map, output, lifecycle, seen>>

\* Faulty variant of Finish: a fatal error leaves the loop instead of
\* returning, so the clients are serialized after an abort too.
Finish_after_abort ==
  /\ status \in {"running", "aborted"}
  /\ output' = [i \in 1..Cardinality(DOMAIN clients_map) |->
                  Row(clients_map[SortedKeys(DOMAIN clients_map)[i]])]
  /\ status' = IF status = "aborted" THEN "aborted" ELSE "done"
  /\ last' = NoLast
  /\ UNCHANGED <<clients_map, nread, lifecycle, seen>>

\* The reader is exhausted: every client is serialized in map order.
Finish ==
  /\ status = "running"
  /\ output' = [i \in 1..Cardinality(DOMAIN clients_map) |->
                  Row(clients_map[SortedKeys(DOMAIN clients_map)[i]])]
  /\ status' = "done"
  /\ last' = NoLast
  /\ UNCHANGED <<clients_map, nread, lifecycle, seen>>

Next ==
  \/ \E tx \in Records : Process(tx)
  \/ DecodeError
  \/ Finish

Spec == Init /\ [][Next]_vars

\* The runs whose records all belong to one client.
NextLedger ==
  \/ \E tx \in Records : LedgerProcess(tx)
  \/ DecodeError
  \/ Finish

SpecLedger == Init /\ [][NextLedger]_vars

\* The records of every client and kind that name the first transaction id
\* and carry no amount or the first amount.
PairRecords ==
  {tx \in Records :
     /\ \A id \in TxIds : tx.tx <= id
     /\ tx.amount # None => \A a \in Amounts : tx.amount[1] <= a}

PairProcess(tx) == nread < MaxPairRecords /\ tx \in PairRecords /\ Step(tx)

\* The runs over those records.
NextPair ==
  \/ \E tx \in Records : PairProcess(tx)
  \/ DecodeError
  \/ Finish

SpecPair == Init /\ [][NextPair]_vars

\* ---- observations on the loop iteration just executed ----
Acted == last.err # "NoResult"

\* The ledger of the record's client after the iteration.
After == clients_map[last.tx.client]

LedgerUnchanged == After = last.before

InHistory == last.tx.tx \in DOMAIN last.before.transactions

\* The stored transaction the record refers to, as it was before the iteration.
Referred == last.before.transactions[last.tx.tx]

\* ---- C1 ----
\* C1: for every client ledger, after any sequence of make_tx calls (successful
\* or failed), total = available + held.
C1_TotalIsAvailablePlusHeld ==
  \A id \in DOMAIN clients_map :
    clients_map[id].total = clients_map[id].available + clients_map[id].held

\* A chargeback has succeeded on a ledger that still has available and held funds.
C1_Witness ==
  /\ last.tx.tx_type = "Chargeback" /\ last.err = "Ok"
  /\ After.available # 0 /\ After.held # 0

\* ---- C2 ----
\* C2: locked is monotonic: a new ledger starts unlocked, a locked ledger is
\* never unlocked by a later step, and only a successful Chargeback on that
\* client locks it.
C2_LockedMonotonic ==
  [][\A id \in DOMAIN clients_map' :
       /\ id \notin DOMAIN clients_map => ~clients_map'[id].locked
       /\ id \in DOMAIN clients_map =>
            /\ clients_map[id].locked => clients_map'[id].locked
            /\ (~clients_map[id].locked /\ clients_map'[id].locked) =>
                 /\ last'.tx.tx_type = "Chargeback"
                 /\ last'.tx.client = id
                 /\ last'.err = "Ok"]_vars

\* A record has been processed against a ledger that was already locked.
C2_Witness == Acted /\ last.before.locked /\ After.locked

\* ---- C3 ----
\* C3: whenever make_tx returns an error, the ledger (balances, locked,
\* history and every disputed flag) is exactly as before the call.
C3_ErrorLeavesLedgerUnchanged ==
  (Acted /\ last.err # "Ok") => LedgerUnchanged

\* A withdrawal has failed for lack of funds on a ledger with history and funds.
C3_Witness ==
  /\ last.err = "NoFunds"
  /\ last.before.transactions # <<>>
  /\ last.before.available > 0

\* ---- C4 ----
\* The case of C4: a Chargeback without amount, through make_tx, on a locked
\* account, referring to a stored transaction whose disputed flag is set.
C4_Case ==
  /\ last.tx.tx_type = "Chargeback" /\ last.tx.amount = None
  /\ last.before.locked
  /\ InHistory /\ is_disputed(Referred)

\* C4 as stated: a Chargeback is not gated by the locked flag; on a locked
\* account it succeeds and applies held -= amount, total -= amount.
C4_ChargebackNotGatedByLocked ==
  C4_Case =>
    /\ last.err = "Ok"
    /\ After.held = last.before.held - Referred.amount[1]
    /\ After.total = last.before.total - Referred.amount[1]

\* C4 (amended): a Chargeback through make_tx on a locked account fails with
\* ClientLocked, leaves the ledger unchanged and aborts the run.
C4_ChargebackGatedByLocked ==
  C4_Case =>
    /\ last.err = "ClientLocked"
    /\ LedgerUnchanged
    /\ status = "aborted"

C4_Witness == C4_Case /\ Acted

\* ---- C5 ----
\* The ledger after Deposit(a) and Dispute of the same transaction on a new ledger.
C5_DepositedAndDisputed ==
  /\ InHistory
  /\ DOMAIN last.before.transactions = {last.tx.tx}
  /\ Referred.tx_type = "Deposit" /\ is_disputed(Referred)
  /\ last.before.available = 0
  /\ last.before.held = Referred.amount[1]
  /\ last.before.total = Referred.amount[1]
  /\ ~last.before.locked

\* C5: on a locked ledger every Deposit, Withdrawal, Dispute or Resolve fails
\* with ClientLocked, leaves the ledger unchanged and aborts the run; and
\* after Deposit, Dispute, Chargeback of one transaction the ledger is
\* available = 0, held = 0, total = 0, locked.
C5_LockedRejectsAndAborts ==
  /\ (Acted /\ last.before.locked
        /\ last.tx.tx_type \in {"Deposit", "Withdrawal", "Dispute", "Resolve"}) =>
       /\ last.err = "ClientLocked"
       /\ LedgerUnchanged
       /\ status = "aborted"
  /\ (last.tx.tx_type = "Chargeback" /\ last.tx.amount = None /\ C5_DepositedAndDisputed) =>
       /\ last.err = "Ok"
       /\ After.available = 0 /\ After.held = 0 /\ After.total = 0 /\ After.locked

\* A Deposit with an amount has been rejected on the ledger that Deposit,
\* Dispute, Chargeback left at 0, 0, 0, locked.
C5_Witness ==
  /\ last.tx.tx_type = "Deposit" /\ last.tx.amount # None
  /\ last.before.locked
  /\ last.before.available = 0 /\ last.before.held = 0 /\ last.before.total = 0
  /\ LifeOf(last.tx.client, last.tx.tx) = "ChargedBack"
  /\ last.err = "ClientLocked"

\* ---- C6 ----
\* The case of C6: a Withdrawal whose amount exceeds the available funds.
C6_Case ==
  /\ last.tx.tx_type = "Withdrawal" /\ last.tx.amount # None
  /\ last.tx.amount[1] > last.before.available

\* C6 as stated: for every Withdrawal with amount > available the ledger is
\* unchanged and the run continues.
C6_OverdrawContinues ==
  C6_Case => (LedgerUnchanged /\ status = "running")

\* C6 (amended): the ledger is unchanged in every case; on an unlocked account
\* the failure is NoFunds and the run continues, on a locked account it is
\* ClientLocked and the run aborts.
C6_OverdrawUnlockedContinues ==
  C6_Case =>
    /\ LedgerUnchanged
    /\ ~last.before.locked => (last.err = "NoFunds" /\ status = "running")
    /\ last.before.locked => (last.err = "ClientLocked" /\ status = "aborted")

\* An overdraw has been attempted on an unlocked ledger that holds disputed funds.
C6_Witness ==
  /\ C6_Case /\ Acted
  /\ ~last.before.locked
  /\ last.before.total >= last.tx.amount[1]

\* ---- C7 ----
\* The case of C7: a Dispute, Resolve or Chargeback of an unknown tx_id.
C7_Case ==
  /\ last.tx.tx_type \in {"Dispute", "Resolve", "Chargeback"}
  /\ ~InHistory

\* C7 as stated: the ledger is unchanged and the run continues.
C7_UnknownTxContinues ==
  C7_Case => (LedgerUnchanged /\ status = "running")

\* C7 (amended): the ledger is unchanged in every case; the failure is
\* TransactionNotFound and the run continues when the account is unlocked and
\* the record carries no amount; on a locked account it is ClientLocked, and
\* on an unlocked account with an amount it is WithAmount, and the run aborts.
C7_UnknownTxUnlockedNoAmountContinues ==
  C7_Case =>
    /\ LedgerUnchanged
    /\ (~last.before.locked /\ last.tx.amount = None) =>
         (last.err = "TransactionNotFound" /\ status = "running")
    /\ last.before.locked => (last.err = "ClientLocked" /\ status = "aborted")
    /\ (~last.before.locked /\ last.tx.amount # None) =>
         (last.err = "WithAmount" /\ status = "aborted")

\* An unknown tx_id has been referred to on an unlocked ledger that has history.
C7_Witness ==
  /\ C7_Case /\ Acted
  /\ ~last.before.locked /\ last.tx.amount = None
  /\ last.before.transactions # <<>>

\* ---- C8 ----
\* C8: a Resolve or Chargeback of a transaction whose most recent dispute has
\* already been resolved (no Dispute since) is rejected as not disputed and
\* leaves available, held and total unchanged.
C8_ResolvedIsNotDisputed ==
  (/\ last.tx.tx_type \in {"Resolve", "Chargeback"} /\ last.tx.amount = None
   /\ ~last.before.locked
   /\ last.life = "Resolved") =>
    /\ last.err = "TxNotDisputed"
    /\ After.available = last.before.available
    /\ After.held = last.before.held
    /\ After.total = last.before.total

\* ---- C9 ----
\* The case of C9: a Resolve or Chargeback on an unlocked account of a stored
\* transaction that has never been disputed.
C9_Case ==
  /\ last.tx.tx_type \in {"Resolve", "Chargeback"}
  /\ ~last.before.locked
  /\ InHistory
  /\ last.life = "Normal"

\* C9 as stated: it fails with TxNotDisputed, the ledger is unchanged and the
\* run continues.
C9_NeverDisputedRejected ==
  C9_Case => (last.err = "TxNotDisputed" /\ LedgerUnchanged /\ status = "running")

\* C9 (amended): so it is for a record that carries no amount; a record that
\* carries an amount fails with WithAmount, ledger unchanged, and the run aborts.
C9_NeverDisputedNoAmountRejected ==
  C9_Case =>
    /\ LedgerUnchanged /\ ~After.locked
    /\ last.tx.amount = None => (last.err = "TxNotDisputed" /\ status = "running")
    /\ last.tx.amount # None => (last.err = "WithAmount" /\ status = "aborted")

\* A Resolve without amount has referred to a stored, never disputed transaction.
C9_Witness ==
  /\ C9_Case /\ Acted
  /\ last.tx.tx_type = "Resolve" /\ last.tx.amount = None

\* ---- C10 ----
\* C10: a step of the run leaves it running exactly when the record was
\* applied or failed with NoFunds, TransactionNotFound or TxNotDisputed; any
\* other failure, a decode error included, aborts it, and once aborted no
\* ledger changes any more.
C10_ErrorPolicy ==
  [][/\ nread' = nread + 1 =>
          (status' = "running" <=>
             last'.err \in {"Ok", "NoFunds", "TransactionNotFound", "TxNotDisputed"})
     /\ nread' = nread + 1 => (status' = "aborted" <=> status' # "running")
     /\ status = "aborted" => clients_map' = clients_map]_vars

\* The run has aborted on a fatal failure of a record on a ledger with funds.
C10_Witness ==
  /\ status = "aborted" /\ last.err = "WithAmount"
  /\ last.before.total > 0 /\ LedgerUnchanged

\* ---- C11 ----
\* C11: in a run in which a fatal error occurs no output row is emitted:
\* rows exist only once every record has been processed without fatal error.
C11_NoOutputUnlessDone ==
  /\ status = "aborted" => output = <<>>
  /\ output # <<>> => status = "done"

\* The run has aborted on a fatal failure with a ledger that holds funds.
C11_Witness ==
  /\ status = "aborted" /\ Acted
  /\ \E id \in DOMAIN clients_map : clients_map[id].total > 0

\* ---- C12 ----
\* The run has ended and there is one output row per client.
C12_Done == status = "done" /\ Len(output) = Cardinality(DOMAIN clients_map)

C13_DisputeEffect ==
  (last.tx.tx_type = "Dispute" /\ last.err = "Ok") =>
    /\ InHistory /\ Referred.tx_type \in {"Deposit", "Withdrawal"}
    /\ is_disputed(After.transactions[last.tx.tx])
    /\ After.available = last.before.available - Referred.amount[1]
    /\ After.held = last.before.held + Referred.amount[1]
    /\ After.total = last.before.total
    /\ After.locked = last.before.locked

\* A Withdrawal that was not disputed before has been disputed.
C13_Witness ==
  /\ last.tx.tx_type = "Dispute" /\ last.err = "Ok"
  /\ Referred.tx_type = "Withdrawal" /\ ~is_disputed(Referred)

\* ---- C14 ----
\* C14: a successful Resolve of a disputed transaction with amount a increases
\* available by a, decreases held by a, leaves total and locked unchanged
\* and leaves the transaction's disputed flag set.
C14_ResolveEffect ==
  (last.tx.tx_type = "Resolve" /\ last.err = "Ok") =>
    /\ InHistory /\ is_disputed(Referred)
    /\ After.available = last.before.available + Referred.amount[1]
    /\ After.held = last.before.held - Referred.amount[1]
    /\ After.total = last.before.total
    /\ After.locked = last.before.locked
    /\ is_disputed(After.transactions[last.tx.tx])

\* A transaction under dispute has been resolved.
C14_Witness ==
  /\ last.tx.tx_type = "Resolve" /\ last.err = "Ok"
  /\ last.life = "Disputed"
  /\ last.before.held = Referred.amount[1]

\* ---- C15 ----
\* C15: a successful Chargeback of a disputed transaction with amount a
\* decreases held and total by a, leaves available unchanged and locks the
\* account, for a disputed Deposit and for a disputed Withdrawal alike.
C15_ChargebackEffect ==
  (last.tx.tx_type = "Chargeback" /\ last.err = "Ok") =>
    /\ InHistory /\ is_disputed(Referred)
    /\ Referred.tx_type \in {"Deposit", "Withdrawal"}
    /\ After.held = last.before.held - Referred.amount[1]
    /\ After.total = last.before.total - Referred.amount[1]
    /\ After.available = last.before.available
    /\ After.locked

\* A disputed Withdrawal has been charged back.
C15_Witness ==
  /\ last.tx.tx_type = "Chargeback" /\ last.err = "Ok"
  /\ Referred.tx_type = "Withdrawal"

\* ---- C16 ----
\* The case of C16: a Deposit with an amount on an unlocked account.
C16_Case ==
  /\ last.tx.tx_type = "Deposit" /\ last.tx.amount # None
  /\ ~last.before.locked

\* C16: such a Deposit succeeds, increases available and total by the amount,
\* leaves held and locked unchanged, and is stored in history under its
\* tx_id with disputed = false (the other entries are kept).
C16_DepositEffect ==
  C16_Case =>
    /\ last.err = "Ok"
    /\ After.available = last.before.available + last.tx.amount[1]
    /\ After.total = last.before.total + last.tx.amount[1]
    /\ After.held = last.before.held
    /\ After.locked = last.before.locked
    /\ DOMAIN After.transactions = DOMAIN last.before.transactions \cup {last.tx.tx}
    /\ After.transactions[last.tx.tx] =
         [tx_type |-> "Deposit", client |-> last.tx.client, tx |-> last.tx.tx,
          amount |-> last.tx.amount, disputed |-> FALSE]
    /\ \A k \in DOMAIN last.before.transactions :
         k # last.tx.tx => After.transactions[k] = last.before.transactions[k]

\* A Deposit has been applied to a ledger that has history and held funds.
C16_Witness ==
  /\ C16_Case /\ Acted
  /\ last.before.transactions # <<>>
  /\ last.before.held > 0

\* ---- C17 ----
\* The case of C17: a Withdrawal with an amount on an unlocked account.
C17_Case ==
  /\ last.tx.tx_type = "Withdrawal" /\ last.tx.amount # None
  /\ ~last.before.locked

\* C17: such a Withdrawal succeeds exactly when available - amount >= 0; then
\* it decreases available and total by the amount, leaves held unchanged and
\* is stored in history; otherwise it fails with NoFunds and the history is
\* as before.
C17_WithdrawalEffect ==
  C17_Case =>
    /\ last.err = "Ok" <=> last.before.available - last.tx.amount[1] >= 0
    /\ last.err = "Ok" =>
         /\ After.available = last.before.available - last.tx.amount[1]
         /\ After.total = last.before.total - last.tx.amount[1]
         /\ After.held = last.before.held
         /\ DOMAIN After.transactions = DOMAIN last.before.transactions \cup {last.tx.tx}
         /\ After.transactions[last.tx.tx] =
              [tx_type |-> "Withdrawal", client |-> last.tx.client, tx |-> last.tx.tx,
               amount |-> last.tx.amount, disputed |-> FALSE]
    /\ last.err # "Ok" =>
         /\ last.err = "NoFunds"
         /\ After.transactions = last.before.transactions

\* Exactly the available funds have been withdrawn.
C17_Witness ==
  /\ C17_Case /\ last.err = "Ok"
  /\ last.before.available = last.tx.amount[1]

\* ---- C18 ----
C18_Balances(c) == <<c.available, c.held, c.total>>

\* Dispute, Resolve, Dispute, Resolve of transaction id applied to ledger c
\* through make_tx: every step succeeds, and the balances after the second
\* Resolve, after the first Resolve and before the first Dispute are equal.
C18_CycleReversible(c, id) ==
  LET d == Transaction("Dispute", c.client, id, None)
      r == Transaction("Resolve", c.client, id, None)
      s1 == make_tx(c, d)
      s2 == make_tx(s1.c, r)
      s3 == make_tx(s2.c, d)
      s4 == make_tx(s3.c, r)
  IN /\ s1.err = "Ok" /\ s2.err = "Ok" /\ s3.err = "Ok" /\ s4.err = "Ok"
     /\ C18_Balances(s4.c) = C18_Balances(s2.c)
     /\ C18_Balances(s2.c) = C18_Balances(c)

\* C18 as stated: for any ledger state and any Deposit/Withdrawal in its
\* history, Dispute, Resolve, Dispute, Resolve succeeds at every step and
\* restores the balances.
C18_AnyLedgerCycleReversible ==
  \A cl \in DOMAIN clients_map :
    \A id \in DOMAIN clients_map[cl].transactions :
      C18_CycleReversible(clients_map[cl], id)

\* C18 (amended): so it is for any unlocked ledger state; on a locked ledger
\* the first Dispute fails with ClientLocked and the ledger is unchanged.
C18_UnlockedLedgerCycleReversible ==
  \A cl \in DOMAIN clients_map :
    \A id \in DOMAIN clients_map[cl].transactions :
      LET c == clients_map[cl] IN
      /\ ~c.locked => C18_CycleReversible(c, id)
      /\ c.locked =>
           make_tx(c, Transaction("Dispute", cl, id, None)) = Res(c, "ClientLocked")

\* The run has applied Dispute, Resolve, Dispute, Resolve of one transaction
\* in four consecutive successful records.
C18_Witness ==
  /\ last.cyc = 4
  /\ ~After.locked
  /\ C18_CycleReversible(After, last.tx.tx)

\* ---- C19 ----
\* The case of C19: a Deposit or Withdrawal without amount, or a Dispute,
\* Resolve or Chargeback with an amount.
C19_Case ==
  \/ last.tx.tx_type \in {"Deposit", "Withdrawal"} /\ last.tx.amount = None
  \/ last.tx.tx_type \in {"Dispute", "Resolve", "Chargeback"} /\ last.tx.amount # None

C19_AmountError ==
  IF last.tx.tx_type \in {"Deposit", "Withdrawal"} THEN "WithoutAmount" ELSE "WithAmount"

\* C19 as stated: the record fails with WithoutAmount, respectively
\* WithAmount, the ledger is unchanged and the run aborts.
C19_AmountPresenceChecked ==
  C19_Case =>
    (last.err = C19_AmountError /\ LedgerUnchanged /\ status = "aborted")

\* C19 (amended): on an unlocked account the record fails with WithoutAmount,
\* respectively WithAmount, whatever the referenced tx_id; on a locked
\* account it fails with ClientLocked, which make_tx checks first; in both
\* cases the ledger is unchanged and the run aborts.
C19_AmountPresenceCheckedAfterLock ==
  C19_Case =>
    /\ LedgerUnchanged /\ status = "aborted"
    /\ ~last.before.locked => last.err = C19_AmountError
    /\ last.before.locked => last.err = "ClientLocked"

\* A Resolve with an amount has referred, on an unlocked account, to a
\* stored transaction that is not disputed.
C19_Witness ==
  /\ C19_Case /\ Acted
  /\ last.tx.tx_type = "Resolve"
  /\ ~last.before.locked
  /\ InHistory /\ ~is_disputed(Referred)

\* ---- C20 ----
\* C20: a record of any kind leaves a ledger of its client in the registry,
\* whatever its result; the ledger it is applied to is a new one (zero
\* balances, unlocked, empty history) if the client had none and the
\* existing one otherwise; no ledger is ever removed; and at the end every
\* ledger of the registry is reported.
C20_LedgerCreatedOnFirstRecord ==
  [][/\ DOMAIN clients_map \subseteq DOMAIN clients_map'
     /\ last'.err # "NoResult" =>
          /\ last'.tx.client \in DOMAIN clients_map'
          /\ DOMAIN clients_map' = DOMAIN clients_map \cup {last'.tx.client}
          /\ last'.tx.client \notin DOMAIN clients_map =>
               last'.before = [client |-> last'.tx.client, available |-> 0, held |-> 0,
                               total |-> 0, locked |-> FALSE, transactions |-> <<>>]
          /\ last'.tx.client \in DOMAIN clients_map =>
               last'.before = clients_map[last'.tx.client]
          /\ last'.err \in {"NoFunds", "TransactionNotFound", "TxNotDisputed"} =>
               clients_map'[last'.tx.client] = last'.before
     /\ status' = "done" =>
          { output'[i].client : i \in 1..Len(output') } = DOMAIN clients_map']_vars

\* The first record of a client, a Withdrawal, has failed for lack of funds
\* and left a new ledger, while another client has a ledger too.
C20_Witness ==
  /\ last.tx.tx_type = "Withdrawal" /\ last.err = "NoFunds"
  /\ last.before = ClientNew(last.tx.client)
  /\ After = ClientNew(last.tx.client)
  /\ Len(seen) = 2 /\ seen[2] = last.tx.client

\* ---- C21 ----
\* The fold of process_transactions as a function: the registry and whether
\* the run has returned an error, after record tx.
C21_Fold(run, tx) ==
  IF run.aborted THEN run
  ELSE LET m1 == or_insert(run.map, tx.client)
           r == make_tx(m1[tx.client], tx)
       IN [map |-> [m1 EXCEPT ![tx.client] = r.c],
           aborted |-> ~(r.err = "Ok" \/ r.err \in Ignored)]

C21_Run(m) == [map |-> m, aborted |-> FALSE]

\* A record changes at most the ledger of its client.
C21_OthersUnchanged ==
  \A id \in DOMAIN clients_map :
    /\ id \in DOMAIN clients_map'
    /\ id # last'.tx.client => clients_map'[id] = clients_map[id]

\* The iteration just executed is the fold of its record.
C21_StepIsFold ==
  LET a == C21_Fold(C21_Run(clients_map), last'.tx)
  IN clients_map' = a.map /\ (status' = "aborted") = a.aborted

\* C21 as stated: a record changes at most the ledger of its client, and
\* with the record just processed and any record of another client swapped,
\* the run aborts or not alike and ends with the same ledgers.
C21_SwapKeepsLedgers ==
  [][last'.err # "NoResult" =>
       /\ C21_OthersUnchanged
       /\ C21_StepIsFold
       /\ \A t2 \in PairRecords :
            t2.client # last'.tx.client =>
              LET a == C21_Fold(C21_Fold(C21_Run(clients_map), last'.tx), t2)
                  b == C21_Fold(C21_Fold(C21_Run(clients_map), t2), last'.tx)
              IN a.aborted = b.aborted /\ a.map = b.map]_vars

\* C21 (amended): a record changes at most the ledger of its client; with
\* two adjacent records of different clients swapped the run aborts or not
\* alike; when it does not abort it ends with the same ledgers; when it
\* aborts, the record that comes after the fatal one is not applied, so only
\* the ledgers of the two clients can differ between the two orders.
C21_SwapKeepsLedgersUnlessAborted ==
  [][last'.err # "NoResult" =>
       /\ C21_OthersUnchanged
       /\ C21_StepIsFold
       /\ \A t2 \in PairRecords :
            t2.client # last'.tx.client =>
              LET a == C21_Fold(C21_Fold(C21_Run(clients_map), last'.tx), t2)
                  b == C21_Fold(C21_Fold(C21_Run(clients_map), t2), last'.tx)
              IN /\ a.aborted = b.aborted
                 /\ ~a.aborted => a.map = b.map
                 /\ \A id \in DOMAIN clients_map :
                      id \notin {t2.client, last'.tx.client} =>
                        a.map[id] = clients_map[id] /\ b.map[id] = clients_map[id]]_vars

\* A record has been applied to a ledger with funds while another client
\* has a ledger with funds.
C21_Witness ==
  /\ Acted /\ last.err = "Ok" /\ last.before.total > 0
  /\ \E id \in DOMAIN clients_map :
       id # last.tx.client /\ clients_map[id].total > 0

\* ---- C22 ----
\* A transaction of the record's account was charged back by an earlier
\* record of the run.
C22_Case ==
  /\ Acted
  /\ \E id \in TxIds :
       /\ LifeOf(last.tx.client, id) = "ChargedBack"
       /\ (id = last.tx.tx /\ last.tx.tx_type = "Chargeback" /\ last.err = "Ok")
            => last.life = "ChargedBack"

\* C22: once a transaction has been charged back, no later record on its
\* account, of any kind and on any transaction, succeeds or changes the
\* ledger; so a ledger has at most one charged-back transaction and the
\* chargeback is the last successful operation on it.
C22_ChargedBackIsTerminal ==
  /\ C22_Case => (last.err # "Ok" /\ LedgerUnchanged)
  /\ \A c \in ClientIds :
       Cardinality({id \in TxIds : LifeOf(c, id) = "ChargedBack"}) <= 1

\* A Dispute, Resolve or Chargeback names the charged-back transaction.
C22_Witness ==
  /\ C22_Case
  /\ last.tx.tx_type \in {"Dispute", "Resolve", "Chargeback"}
  /\ last.tx.amount = None
  /\ LifeOf(last.tx.client, last.tx.tx) = "ChargedBack"

\* ---- C23 ----
\* Every history entry is a Deposit or Withdrawal with an amount, stored
\* under its own transaction id.
C23_HistoryEntries ==
  \A c \in DOMAIN clients_map :
    \A k \in DOMAIN clients_map[c].transactions :
      LET t == clients_map[c].transactions[k]
      IN /\ t.tx_type \in {"Deposit", "Withdrawal"}
         /\ t.amount # None
         /\ t.tx = k

\* The record just processed is a successful Deposit or Withdrawal.
C23_Stores == last.err = "Ok" /\ last.tx.tx_type \in {"Deposit", "Withdrawal"}

C24_DisputeUnguarded ==
  \A k \in DOMAIN clients_map :
    LET c == clients_map[k]
    IN ~c.locked =>
         \A id \in DOMAIN c.transactions :
           LET r == dispute(c, id)
               a == c.transactions[id].amount[1]
           IN /\ r.err = "Ok"
              /\ r.c.available = c.available - a
              /\ r.c.held = c.held + a
              /\ is_disputed(r.c.transactions[id])
              /\ make_tx(c, Transaction("Dispute", k, id, None)) = r

\* A Dispute of an already disputed transaction whose amount exceeds the
\* available balance has succeeded and left available negative.
C24_Witness ==
  /\ Acted /\ last.tx.tx_type = "Dispute" /\ last.err = "Ok"
  /\ ~last.before.locked /\ InHistory
  /\ is_disputed(Referred)
  /\ last.before.available < Referred.amount[1]
  /\ After.available < 0
  /\ After.held = last.before.held + Referred.amount[1]

\* ---- C25 ----
\* A ledger that no dispute has touched: nothing held, nothing negative.
C25_Plain(c) == c.available >= 0 /\ c.held = 0 /\ c.total >= 0

\* C25: with positive amounts, a Deposit, Withdrawal, Resolve or Chargeback
\* record, successful or failed, on a ledger whose available is not negative
\* leaves available not negative; a new ledger has available >= 0, held = 0
\* and total >= 0, and a Deposit or Withdrawal record keeps these three, so
\* they hold of a ledger that has processed only Deposits and Withdrawals.
C25_OnlyDisputeMakesAvailableNegative ==
  /\ \A id \in ClientIds : C25_Plain(ClientNew(id))
  /\ Acted =>
       /\ (last.tx.tx_type # "Dispute" /\ last.before.available >= 0)
            => After.available >= 0
       /\ (last.tx.tx_type \in {"Deposit", "Withdrawal"} /\ C25_Plain(last.before))
            => C25_Plain(After)

\* A Withdrawal has been refused for lack of funds on a ledger that no
\* dispute has touched and that holds a deposit.
C25_Witness ==
  /\ Acted /\ last.tx.tx_type = "Withdrawal" /\ last.err = "NoFunds"
  /\ C25_Plain(last.before) /\ last.before.available > 0
  /\ C25_Plain(After)

\* ---- C26 ----
\* The record just processed is a successful Deposit or Withdrawal whose
\* tx id was already in the history of its client.
C26_Reuse == Acted /\ C23_Stores /\ InHistory

\* C26: a record that is not a successful Deposit or Withdrawal reusing a
\* stored tx id keeps every history entry, with its kind and amount, and
\* keeps a disputed flag that is set; a successful Deposit or Withdrawal
\* that reuses a stored tx id replaces the entry by its own record with the
\* disputed flag unset and leaves held unchanged, after which a Resolve or
\* a Chargeback of that id fails with TxNotDisputed until a new Dispute.
C26_DisputedFlagMonotonicUnlessReuse ==
  /\ (Acted /\ ~C26_Reuse) =>
       \A k \in DOMAIN last.before.transactions :
         /\ k \in DOMAIN After.transactions
         /\ After.transactions[k].tx_type = last.before.transactions[k].tx_type
         /\ After.transactions[k].amount = last.before.transactions[k].amount
         /\ is_disputed(last.before.transactions[k])
              => is_disputed(After.transactions[k])
  /\ C26_Reuse =>
       /\ After.transactions[last.tx.tx] = last.tx
       /\ ~is_disputed(After.transactions[last.tx.tx])
       /\ After.held = last.before.held
       /\ resolve(After, last.tx.tx) = Res(After, "TxNotDisputed")
       /\ chargeback(After, last.tx.tx) = Res(After, "TxNotDisputed")
       /\ resolve(dispute(After, last.tx.tx).c, last.tx.tx).err = "Ok"
       /\ chargeback(dispute(After, last.tx.tx).c, last.tx.tx).err = "Ok"

\* A Deposit or Withdrawal has reused the id of a disputed transaction
\* whose amount is still held.
C26_Witness ==
  /\ C26_Reuse
  /\ is_disputed(Referred)
  /\ After.held > 0
  /\ ~is_disputed(After.transactions[last.tx.tx])

====
